---- MODULE Spec2Model ----
(***************************************************************************)
(* A model of fs-lie-detector:                                             *)
(*   - lie_detector/datasets/trial_dataset.py: TrialDataset and the        *)
(*     download -> unzip -> label -> face-crop -> save pipeline;           *)
(*   - web/server/app.py: the Flask POST /predict handler.                 *)
(* The two components share no state; each has its own specification       *)
(* (SpecData, SpecWeb, SpecRace) over the variables it uses.               *)
(***************************************************************************)
EXTENDS Integers, Sequences, FiniteSets, TLC

(***************************************************************************)
(* Bounds of the model.                                                    *)
(***************************************************************************)
\* Most clip files in each of Clips/Deceptive and Clips/Truthful.
MaxClips == 2
\* Most top-level calls (TrialDataset(), load_or_generate_data()) in a run.
MaxRuns == 2
\* Longest uploaded filename, in characters.
MaxLen == 5
\* Number of write() calls FileStorage.save makes for one upload.
ChunksPerUpload == 2

(***************************************************************************)
(* Module-level configuration of trial_dataset.py.                         *)
(***************************************************************************)
Join(dir, name) == <<dir, name>>

\* The directory the process was started in (any directory but the raw one).
LAUNCH_DIR == "launch"
RAW_DATA_DIRNAME == "data/raw"
PROCESSED_DATA_DIRNAME == "data/processed/TrialData"
PROCESSED_DATA_FILENAME == Join(PROCESSED_DATA_DIRNAME, "X_faces.npy")
PROCESSED_LABELS_FILENAME == Join(PROCESSED_DATA_DIRNAME, "y.npy")
ANNOTATION_CSV_FILENAME == <<"Annotation", "All_Gestures_Deceptive and Truthful.csv">>
ARCHIVE_ROOT == "Real-life_Deception_Detection_2016"

(***************************************************************************)
(* The archive.  A member name is the sequence of its "/"-separated        *)
(* components; a directory entry ("a/b/") ends with the empty component.   *)
(* The archive holds the dataset's folders, d deceptive and t truthful     *)
(* clips, the annotation table, and one member outside the dataset root.   *)
(***************************************************************************)
ClipMember(folder, i) == <<ARCHIVE_ROOT, "Clips", folder, ToString(i)>>

Archive(d, t) ==
    <<  <<ARCHIVE_ROOT, "">>,
        <<ARCHIVE_ROOT>> \o ANNOTATION_CSV_FILENAME,
        <<ARCHIVE_ROOT, "Clips", "Deceptive", "">>  >>
    \o [i \in 1..d |-> ClipMember("Deceptive", i)]
    \o <<  <<"__MACOSX", "._Clips">>,
           <<ARCHIVE_ROOT, "Clips", "Truthful", "">>  >>
    \o [i \in 1..t |-> ClipMember("Truthful", i)]

Archives == {Archive(d, t) : d \in 0..MaxClips, t \in 0..MaxClips}

Range(s) == {s[i] : i \in DOMAIN s}

\* All orders in which a directory listing can return the names in S.
Orders(S) ==
    {s \in [1..Cardinality(S) -> S] : \A i, j \in DOMAIN s : s[i] = s[j] => i = j}

(***************************************************************************)
(* Files and directories.  A directory is (exists, entries).  An array     *)
(* file is (complete, arr): a save that failed part-way leaves a file that *)
(* is not complete.                                                        *)
(***************************************************************************)
NoDir == [exists |-> FALSE, entries |-> {}]
ArrayFile(a) == [complete |-> TRUE, arr |-> a]
TruncatedFile == [complete |-> FALSE, arr |-> <<>>]

VARIABLES
    \* the file system
    cwd,            \* the process's current working directory
    zipPresent,     \* the downloaded archive is in the raw directory
    tempDir,        \* <cwd>/temp
    trialDir,       \* <cwd>/TrialData
    files,          \* array files: path -> (complete, arr)
    \* the environment
    archive,        \* zip_file.namelist() of the remote archive
    \* the Python process
    pc,             \* position of the running top-level call ("idle": none)
    trigger,        \* the running (or last) top-level call: "init" or "load"
    constructed,    \* a TrialDataset instance exists
    subsample_fraction, \* self.subsample_fraction: "None" or "given"
    selfX, selfY,   \* self.X, self.y
    curdir,         \* local of _download_and_process_trial
    zi,             \* index of the zip member the unzip loop is at
    X_fnames, y, microexpressions, X,   \* locals of _process_raw_dataset
    \* what the caller has seen
    calls,          \* top-level calls made so far
    result,         \* "none" | "running" | "returned" | "raised"
    raisedAt,       \* the step of the latest failure that propagated, "-" if none
    cwdBefore,      \* the working directory when the call was made
    filesBefore,    \* the array files when the call was made
    sawLeftover,    \* some call found what a failed extraction left in temp/
    materialized    \* some earlier _download_and_process_trial ran to its end

fsVars == <<cwd, zipPresent, tempDir, trialDir, files>>
localVars == <<curdir, zi, X_fnames, y, microexpressions, X>>
objVars == <<constructed, subsample_fraction, selfX, selfY>>
callVars == <<calls, trigger, result, raisedAt, cwdBefore, filesBefore,
              sawLeftover, materialized>>
dataVars == <<fsVars, archive, pc, localVars, objVars, callVars>>

VARIABLES
    \* the upload directory, shared by all requests
    upload,         \* path -> the chunks stored there
    \* one POST /predict request each
    rpc,            \* position of the request's handler
    req,            \* the request: (hasFile, filename, payload)
    fpath,          \* local of _load_video
    woff,           \* chunks file.save has written so far
    vpath,          \* local of face_percent
    predictCalls,   \* the arguments predict_example was called with
    scored,         \* the bytes predict_example read
    percent,        \* what predict_example did: (raised, value)
    response        \* the HTTP response: (status, json)

webVars == <<upload, rpc, req, fpath, woff, vpath, predictCalls, scored, percent, response>>

vars == <<dataVars, webVars>>

Exists(path) == path \in DOMAIN files
Write(path, content) == (path :> content) @@ files

InitData ==
    /\ cwd = LAUNCH_DIR
    /\ zipPresent = FALSE
    /\ tempDir = NoDir
    /\ trialDir = NoDir
    \* The processed artifact is absent, or was put in place by hand.
    /\ files \in {<<>>,
                  (PROCESSED_DATA_FILENAME :> ArrayFile(<<>>))
                      @@ (PROCESSED_LABELS_FILENAME :> ArrayFile(<<>>))}
    /\ archive \in Archives
    /\ pc = "idle"
    /\ trigger = "none"
    /\ constructed = FALSE
    /\ subsample_fraction = "None"
    /\ selfX = <<>> /\ selfY = <<>>
    /\ curdir = "" /\ zi = 0
    /\ X_fnames = <<>> /\ y = <<>> /\ microexpressions = <<>> /\ X = <<>>
    /\ calls = 0
    /\ result = "none"
    /\ raisedAt = "-"
    /\ cwdBefore = LAUNCH_DIR
    /\ filesBefore = files
    /\ sawLeftover = FALSE
    /\ materialized = FALSE

ResetLocals ==
    /\ curdir' = "" /\ zi' = 0
    /\ X_fnames' = <<>> /\ y' = <<>> /\ microexpressions' = <<>> /\ X' = <<>>

\* An exception propagates out of the top-level call: nothing catches it.
Raise(at) ==
    /\ pc' = "idle"
    /\ result' = "raised"
    /\ raisedAt' = at
    /\ ResetLocals
    /\ UNCHANGED <<calls, trigger, cwdBefore, filesBefore, sawLeftover, materialized>>

Goto(next) ==
    /\ pc' = next
    /\ UNCHANGED callVars

StartCall(t) ==
    /\ pc = "idle"
    /\ calls < MaxRuns
    /\ calls' = calls + 1
    /\ trigger' = t
    /\ result' = "running"
    /\ cwdBefore' = cwd
    /\ filesBefore' = files
    /\ UNCHANGED <<raisedAt, sawLeftover, materialized>>

\* The script is started again: a new process, in the launch directory.
NewProcess ==
    /\ pc = "idle"
    /\ result \in {"returned", "raised"}
    /\ calls < MaxRuns
    /\ cwd' = LAUNCH_DIR
    /\ constructed' = FALSE
    /\ subsample_fraction' = "None"
    /\ selfX' = <<>> /\ selfY' = <<>>
    /\ result' = "none"
    /\ cwdBefore' = LAUNCH_DIR
    /\ UNCHANGED <<calls, trigger, raisedAt, filesBefore, sawLeftover, materialized>>
    /\ UNCHANGED <<zipPresent, tempDir, trialDir, files, archive, pc, localVars>>
    /\ UNCHANGED webVars

\* TrialDataset.__init__
Construct ==
    /\ StartCall("init")
    /\ pc' = IF ~Exists(PROCESSED_DATA_FILENAME) THEN "begin" ELSE "init_done"
    /\ UNCHANGED <<fsVars, archive, localVars, objVars>>
    /\ UNCHANGED webVars

\* The rest of __init__ (lines 34-40): the instance exists, with the
\* subsample_fraction it was given.
ConstructDone ==
    /\ pc = "init_done"
    /\ constructed' = TRUE
    /\ selfX' = <<>> /\ selfY' = <<>>
    /\ subsample_fraction' \in {"None", "given"}
    /\ pc' = "idle"
    /\ result' = "returned"
    /\ UNCHANGED <<calls, trigger, raisedAt, cwdBefore, filesBefore, sawLeftover,
                   materialized>>
    /\ UNCHANGED <<fsVars, archive, localVars>>
    /\ UNCHANGED webVars

\* TrialDataset.load_or_generate_data, up to the existence check.
LoadOrGenerate ==
    /\ constructed
    /\ StartCall("load")
    /\ pc' = IF ~Exists(PROCESSED_DATA_FILENAME) THEN "begin" ELSE "npload"
    /\ UNCHANGED <<fsVars, archive, localVars, objVars>>
    /\ UNCHANGED webVars

\* _download_and_process_trial, lines 67-69: toml.load, os.getcwd, os.chdir.
\* A missing metadata file or raw directory fails before the directory changes.
BeginPipeline ==
    /\ pc = "begin"
    /\ \/ /\ curdir' = cwd
          /\ cwd' = RAW_DATA_DIRNAME
          /\ Goto("download")
          /\ UNCHANGED <<zi, X_fnames, y, microexpressions, X>>
       \/ /\ Raise("begin")
          /\ UNCHANGED cwd
    /\ UNCHANGED <<zipPresent, tempDir, trialDir, files, archive, objVars>>
    /\ UNCHANGED webVars

\* _download_raw_dataset(metadata['trial']) of lie_detector/datasets/dataset.py:
\* fetch the archive unless it is already in the working directory.
DownloadRawDataset ==
    /\ pc = "download"
    /\ IF zipPresent
       THEN Goto("process") /\ UNCHANGED <<zipPresent, localVars>>
       ELSE \/ zipPresent' = TRUE /\ Goto("process") /\ UNCHANGED localVars
            \/ Raise("download") /\ UNCHANGED zipPresent
    /\ UNCHANGED <<cwd, tempDir, trialDir, files, archive, objVars>>
    /\ UNCHANGED webVars

\* _process_raw_dataset, line 76: unzip only if TrialData is not there.
ProcessRawDataset ==
    /\ pc = "process"
    /\ pc' = IF ~trialDir.exists THEN "unzip" ELSE "csv"
    /\ zi' = IF ~trialDir.exists THEN 1 ELSE 0
    /\ sawLeftover' = (sawLeftover \/ (~trialDir.exists /\ tempDir.entries # {}))
    /\ UNCHANGED <<calls, trigger, result, raisedAt, cwdBefore, filesBefore, materialized>>
    /\ UNCHANGED <<fsVars, archive, objVars>>
    /\ UNCHANGED <<curdir, X_fnames, y, microexpressions, X>>
    /\ UNCHANGED webVars

\* file.startswith('Real-life_Deception_Detection_2016/')
StartsWithRoot(file) == Len(file) >= 2 /\ file[1] = ARCHIVE_ROOT

\* A faulty variant of Extract: a member already under temp/ is left as it is.
ExtractKeepExisting(file, whole) ==
    IF \E e \in tempDir.entries : e.name = file
    THEN tempDir
    ELSE [exists |-> TRUE,
          entries |-> tempDir.entries \cup {[name |-> file, whole |-> whole]}]

\* zip_file.extract(file, 'temp'): the member is written under temp/, over
\* whatever an earlier extraction left there.  whole = FALSE: the write
\* stopped part-way.
Extract(file, whole) ==
    [exists |-> TRUE,
     entries |-> {e \in tempDir.entries : e.name # file}
                    \cup {[name |-> file, whole |-> whole]}]

\* One iteration of the loop over zip_file.namelist(), lines 79-81.
UnzipMember ==
    /\ pc = "unzip"
    /\ zi <= Len(archive)
    /\ \/ /\ tempDir' = IF StartsWithRoot(archive[zi])
                        THEN Extract(archive[zi], TRUE)
                        ELSE tempDir
          /\ zi' = zi + 1
          /\ Goto("unzip")
          /\ UNCHANGED <<curdir, X_fnames, y, microexpressions, X>>
       \/ \* the extraction fails, before or while the member is written
          /\ StartsWithRoot(archive[zi])
          /\ tempDir' \in {tempDir, Extract(archive[zi], FALSE)}
          /\ Raise("unzip")
    /\ UNCHANGED <<cwd, zipPresent, trialDir, files, archive, objVars>>
    /\ UNCHANGED webVars

\* os.listdir('TrialData/Clips/<folder>') on the directory entries `entries`.
DirExists(entries, folder) ==
    \E e \in entries : /\ Len(e.name) >= 3
                       /\ e.name[1] = "Clips" /\ e.name[2] = folder
ListDir(entries, folder) ==
    {e.name[3] : e \in {m \in entries : /\ Len(m.name) = 3
                                        /\ m.name[1] = "Clips"
                                        /\ m.name[2] = folder
                                        /\ m.name[3] # ""}}

\* Lines 82-84: close the archive, rename temp/<root>/ to TrialData/, rmdir temp.
RenameTemp ==
    /\ pc = "unzip"
    /\ zi > Len(archive)
    /\ LET under == {m \in tempDir.entries : m.name[1] = ARCHIVE_ROOT}
           moved == {[name |-> Tail(m.name), whole |-> m.whole] : m \in under}
           left == tempDir.entries \ under
       IN  IF under = {}
           THEN \* os.rename: the source does not exist
                /\ Raise("rename")
                /\ UNCHANGED <<tempDir, trialDir>>
           ELSE /\ trialDir' = [exists |-> TRUE, entries |-> moved]
                /\ IF left # {}
                   THEN \* os.rmdir: the directory is not empty
                        /\ tempDir' = [exists |-> TRUE, entries |-> left]
                        /\ Raise("rmdir")
                   ELSE /\ tempDir' = NoDir
                        /\ zi' = 0
                        /\ Goto("csv")
                        /\ UNCHANGED <<curdir, X_fnames, y, microexpressions, X>>
    /\ UNCHANGED <<cwd, zipPresent, files, archive, objVars>>
    /\ UNCHANGED webVars

\* pd.read_csv(annotation_path), lines 91-92.
ReadAnnotations ==
    /\ pc = "csv"
    /\ IF [name |-> ANNOTATION_CSV_FILENAME, whole |-> TRUE] \notin trialDir.entries
       THEN Raise("csv")
       ELSE \/ Goto("list") /\ UNCHANGED localVars
            \/ Raise("csv")
    /\ UNCHANGED <<fsVars, archive, objVars>>
    /\ UNCHANGED webVars

\* The path and the label the two loops of lines 94-101 give a clip.
ClipPath(folder, f) == <<RAW_DATA_DIRNAME, "TrialData", "Clips", folder, f>>
DeceptiveLabel == 1
TruthfulLabel == 0

\* list(annotation_csv[annotation_csv.id == f]): the table's column names,
\* whether or not a row matches.
AnnotationColumns == <<"id", "class">>

\* Lines 88-101: the clip list, the Deceptive listing then the Truthful one.
ClipFnames(oD, oT) ==
    [i \in 1..Len(oD) |-> ClipPath("Deceptive", oD[i])]
        \o [i \in 1..Len(oT) |-> ClipPath("Truthful", oT[i])]
\* A faulty variant of ClipLabels: the two labels exchanged.
ClipLabelsSwapped(oD, oT) ==
    [i \in 1..Len(oD) |-> TruthfulLabel] \o [i \in 1..Len(oT) |-> DeceptiveLabel]

ClipLabels(oD, oT) ==
    [i \in 1..Len(oD) |-> DeceptiveLabel] \o [i \in 1..Len(oT) |-> TruthfulLabel]

ListClips ==
    /\ pc = "list"
    /\ IF ~DirExists(trialDir.entries, "Deceptive")
            \/ ~DirExists(trialDir.entries, "Truthful")
       THEN Raise("list")
       ELSE \* os.listdir returns each folder's names in an arbitrary order
            /\ \E oD \in Orders(ListDir(trialDir.entries, "Deceptive")),
                  oT \in Orders(ListDir(trialDir.entries, "Truthful")) :
                    /\ X_fnames' = ClipFnames(oD, oT)
                    /\ y' = ClipLabels(oD, oT)
                    /\ microexpressions' =
                           [i \in 1..(Len(oD) + Len(oT)) |-> AnnotationColumns]
            /\ X' = <<>>
            /\ Goto("crop")
            /\ UNCHANGED <<curdir, zi>>
    /\ UNCHANGED <<fsVars, archive, objVars>>
    /\ UNCHANGED webVars

\* generate_cropped_face_video(f, grayscale=True, fps=10): a deterministic
\* function of the clip and the fixed parameters.
Crop(f) == [video |-> f, grayscale |-> TRUE, fps |-> 10]

\* One iteration of the loop of lines 110-113.
CropClip ==
    /\ pc = "crop"
    /\ Len(X) < Len(X_fnames)
    /\ \/ /\ X' = Append(X, Crop(X_fnames[Len(X) + 1]))
          /\ Goto("crop")
          /\ UNCHANGED <<curdir, zi, X_fnames, y, microexpressions>>
       \/ Raise("crop")
    /\ UNCHANGED <<fsVars, archive, objVars>>
    /\ UNCHANGED webVars

\* Where np.save('X_faces.npy', X) and np.save('y.npy', y) write: the names
\* are relative, so under the working directory.
SavePath(name) == Join(cwd, name)

\* A faulty variant of SaveFeatures: the save sits inside the clip loop.
SaveFeaturesInLoop ==
    /\ pc = "crop"
    /\ X # <<>>
    /\ files' = Write(SavePath("X_faces.npy"), ArrayFile(X))
    /\ IF Len(X) = Len(X_fnames) THEN Goto("save_y") ELSE Goto("crop")
    /\ UNCHANGED localVars
    /\ UNCHANGED <<cwd, zipPresent, tempDir, trialDir, archive, objVars>>
    /\ UNCHANGED webVars

\* Lines 114-117: np.save('X_faces.npy', X), after the last clip.
SaveFeatures ==
    /\ pc = "crop"
    /\ Len(X) = Len(X_fnames)
    /\ \/ /\ files' = Write(SavePath("X_faces.npy"), ArrayFile(X))
          /\ Goto("save_y")
          /\ UNCHANGED localVars
       \/ /\ files' \in {files, Write(SavePath("X_faces.npy"), TruncatedFile)}
          /\ Raise("save")
    /\ UNCHANGED <<cwd, zipPresent, tempDir, trialDir, archive, objVars>>
    /\ UNCHANGED webVars

\* Line 118: np.save('y.npy', y).
SaveLabels ==
    /\ pc = "save_y"
    /\ \/ /\ files' = Write(SavePath("y.npy"), ArrayFile(y))
          /\ Goto("restore")
          /\ UNCHANGED localVars
       \/ /\ files' \in {files, Write(SavePath("y.npy"), TruncatedFile)}
          /\ Raise("save")
    /\ UNCHANGED <<cwd, zipPresent, tempDir, trialDir, archive, objVars>>
    /\ UNCHANGED webVars

\* Line 72: os.chdir(curdir), and the return to the caller.
RestoreCwd ==
    /\ pc = "restore"
    /\ cwd' = curdir
    /\ pc' = IF trigger = "init" THEN "init_done" ELSE "npload"
    /\ materialized' = TRUE
    /\ ResetLocals
    /\ UNCHANGED <<calls, trigger, result, raisedAt, cwdBefore, filesBefore, sawLeftover>>
    /\ UNCHANGED <<zipPresent, tempDir, trialDir, files, archive, objVars>>
    /\ UNCHANGED webVars

\* np.load: the array of a file that exists and is whole.
Loadable(path) == Exists(path) /\ files[path].complete

\* Lines 45-51 of load_or_generate_data.  _subsample returns at once when
\* subsample_fraction is None; otherwise it reads self.x_train.shape, and
\* x_train is None (line 37), so it raises.
LoadArrays ==
    /\ pc = "npload"
    /\ IF ~Loadable(PROCESSED_DATA_FILENAME)
       THEN Raise("npload") /\ UNCHANGED objVars
       ELSE /\ selfX' = files[PROCESSED_DATA_FILENAME].arr
            /\ IF ~Loadable(PROCESSED_LABELS_FILENAME)
               THEN Raise("npload") /\ UNCHANGED <<constructed, subsample_fraction, selfY>>
               ELSE /\ selfY' = files[PROCESSED_LABELS_FILENAME].arr
                    /\ UNCHANGED <<constructed, subsample_fraction>>
                    /\ IF subsample_fraction # "None"
                       THEN Raise("subsample")
                       ELSE /\ pc' = "idle"
                            /\ result' = "returned"
                            /\ UNCHANGED <<calls, trigger, raisedAt, cwdBefore,
                                           filesBefore, sawLeftover, materialized,
                                           localVars>>
    /\ UNCHANGED <<fsVars, archive>>
    /\ UNCHANGED webVars

(***************************************************************************)
(* web/server/app.py.  A filename is the sequence of its characters.       *)
(***************************************************************************)
Alphabet == {".", "m", "p", "4", "M"}
Filenames == UNION {[1..n -> Alphabet] : n \in 0..MaxLen}

\* Python's None: no path (a path is a pair).
None == <<>>

ALLOWED_EXTENSIONS == {<<"m", "p", "4">>}
UPLOAD_FOLDER == "/tmp"

\* str.split(sep)
RECURSIVE Split(_, _)
Split(s, sep) ==
    IF s = <<>> THEN << <<>> >>
    ELSE LET rest == Split(Tail(s), sep)
         IN  IF Head(s) = sep
             THEN << <<>> >> \o rest
             ELSE << <<Head(s)>> \o rest[1] >> \o Tail(rest)

\* str.lower()
LowerChar(c) == CASE c = "M" -> "m"
                  [] c = "P" -> "p"
                  [] OTHER -> c
Lower(s) == [i \in 1..Len(s) |-> LowerChar(s[i])]

\* _allowed_file(fname): the piece between the first dot and the next one.
allowed_file(fname) ==
    /\ "." \in Range(fname)
    /\ Lower(Split(fname, ".")[2]) \in ALLOWED_EXTENSIONS

\* werkzeug's secure_filename on names over Alphabet: every character is
\* kept, then dots are stripped from both ends (str.strip("._")).
RECURSIVE LStrip(_)
LStrip(s) == IF s # <<>> /\ Head(s) = "." THEN LStrip(Tail(s)) ELSE s
RECURSIVE RStrip(_)
RStrip(s) == IF s # <<>> /\ s[Len(s)] = "." THEN RStrip(SubSeq(s, 1, Len(s) - 1)) ELSE s
secure_filename(filename) == RStrip(LStrip(filename))

\* A faulty variant of UploadPath: every upload stored under one name.
UploadPathFixed(filename) == Join(UPLOAD_FOLDER, <<"u", "p">>)

\* os.path.join(app.config['UPLOAD_FOLDER'], filename)
UploadPath(filename) == Join(UPLOAD_FOLDER, secure_filename(filename))

\* An upload's bytes, as the chunks file.save writes them.
Payload(c) == [i \in 1..ChunksPerUpload |-> <<c, i>>]
Payloads == {Payload("A"), Payload("B")}
\* The bytes of a gap left by a write beyond the end of the file.
Hole == <<"0", 0>>

\* A request without a `file` part, and the requests with one.
NoFileRequest == [hasFile |-> FALSE, filename |-> <<>>, payload |-> <<>>]
FileRequests(names) ==
    {[hasFile |-> TRUE, filename |-> n, payload |-> p] : n \in names, p \in Payloads}

\* What predict_example may return.
Scores == {0, 73}

Requests == {"r1", "r2"}

InitWeb ==
    /\ upload = <<>>
    /\ rpc = [r \in Requests |-> "idle"]
    /\ req = [r \in Requests |-> NoFileRequest]
    /\ fpath = [r \in Requests |-> None]
    /\ woff = [r \in Requests |-> 0]
    /\ vpath = [r \in Requests |-> None]
    /\ predictCalls = [r \in Requests |-> <<>>]
    /\ scored = [r \in Requests |-> <<>>]
    /\ percent = [r \in Requests |-> [raised |-> FALSE, value |-> 0]]
    /\ response = [r \in Requests |-> [status |-> 0, json |-> {}]]

\* A POST /predict arrives and face_percent starts.
Receive(r, inputs) ==
    /\ rpc[r] = "idle"
    /\ \E q \in inputs : req' = [req EXCEPT ![r] = q]
    /\ rpc' = [rpc EXCEPT ![r] = "load"]
    /\ UNCHANGED <<upload, fpath, woff, vpath, predictCalls, scored, percent, response>>
    /\ UNCHANGED dataVars

\* _load_video returns to face_percent, line 46.
ReturnTo(r, v) ==
    /\ vpath' = [vpath EXCEPT ![r] = v]
    /\ rpc' = [rpc EXCEPT ![r] = "predict"]

\* _load_video, lines 61-71, and the open(fpath, "wb") file.save starts with.
LoadVideo(r) ==
    /\ rpc[r] = "load"
    /\ IF ~req[r].hasFile
       THEN ReturnTo(r, None) /\ UNCHANGED <<upload, fpath>>
       ELSE IF req[r].filename = <<>>
       THEN ReturnTo(r, None) /\ UNCHANGED <<upload, fpath>>
       ELSE IF allowed_file(req[r].filename)
       THEN /\ fpath' = [fpath EXCEPT ![r] = UploadPath(req[r].filename)]
            /\ upload' = (fpath'[r] :> <<>>) @@ upload
            /\ rpc' = [rpc EXCEPT ![r] = "save"]
            /\ UNCHANGED vpath
       ELSE \* the function ends without a return statement
            ReturnTo(r, None) /\ UNCHANGED <<upload, fpath>>
    /\ UNCHANGED <<req, woff, predictCalls, scored, percent, response>>
    /\ UNCHANGED dataVars

\* A write of `chunk` at offset `off` (from 1) of a file holding `content`.
WriteAt(content, off, chunk) ==
    [i \in 1..(IF Len(content) > off THEN Len(content) ELSE off) |->
        IF i = off THEN chunk
        ELSE IF i <= Len(content) THEN content[i] ELSE Hole]

\* file.save(fpath), line 72: FileStorage.save copies the upload to the
\* opened file buffer by buffer; this is one write() of that loop, at the
\* writer's own offset.
SaveChunk(r) ==
    /\ rpc[r] = "save"
    /\ woff[r] < Len(req[r].payload)
    /\ upload' = (fpath[r] :> WriteAt(upload[fpath[r]], woff[r] + 1,
                                      req[r].payload[woff[r] + 1])) @@ upload
    /\ woff' = [woff EXCEPT ![r] = woff[r] + 1]
    /\ UNCHANGED <<rpc, req, fpath, vpath, predictCalls, scored, percent, response>>
    /\ UNCHANGED dataVars

\* file.save is done; return fpath, line 74.
SaveDone(r) ==
    /\ rpc[r] = "save"
    /\ woff[r] = Len(req[r].payload)
    /\ ReturnTo(r, fpath[r])
    /\ UNCHANGED <<upload, req, fpath, woff, predictCalls, scored, percent, response>>
    /\ UNCHANGED dataVars

\* A faulty variant of PredictArg: the path built from the raw filename.
PredictArgUnsanitized(r) ==
    IF vpath[r] = None THEN None ELSE Join(UPLOAD_FOLDER, req[r].filename)

\* The argument face_percent gives predict_example, line 47.
PredictArg(r) == vpath[r]

\* percent = predict_example(vpath): the predictor reads the file at the path
\* it is given, and returns a score or raises.
Predict(r) ==
    /\ rpc[r] = "predict"
    /\ predictCalls' = [predictCalls EXCEPT ![r] = Append(@, PredictArg(r))]
    /\ scored' = [scored EXCEPT ![r] =
                    IF PredictArg(r) \in DOMAIN upload THEN upload[PredictArg(r)]
                    ELSE <<>>]
    /\ \/ \E s \in Scores : percent' = [percent EXCEPT ![r] = [raised |-> FALSE, value |-> s]]
       \/ percent' = [percent EXCEPT ![r] = [raised |-> TRUE, value |-> 0]]
    /\ rpc' = [rpc EXCEPT ![r] = "respond"]
    /\ UNCHANGED <<upload, req, fpath, woff, vpath, response>>
    /\ UNCHANGED dataVars

\* jsonify({'percent': float(percent)}): float of a number is that number.
Jsonify(p) == [status |-> 200, json |-> {<<"percent", p>>}]
\* What Flask answers when the view raises.
ServerError == [status |-> 500, json |-> {}]

\* Lines 49-53.
Respond(r) ==
    /\ rpc[r] = "respond"
    /\ response' = [response EXCEPT ![r] =
                      IF percent[r].raised THEN ServerError
                      ELSE Jsonify(percent[r].value)]
    /\ rpc' = [rpc EXCEPT ![r] = "done"]
    /\ UNCHANGED <<upload, req, fpath, woff, vpath, predictCalls, scored, percent>>
    /\ UNCHANGED dataVars

(***************************************************************************)
(* The specifications.                                                     *)
(***************************************************************************)
\* The data component at rest, while the web component runs.
DataAtRest == InitData /\ archive = Archive(0, 0) /\ files = <<>>

NextData ==
    \/ NewProcess
    \/ Construct
    \/ ConstructDone
    \/ LoadOrGenerate
    \/ BeginPipeline
    \/ DownloadRawDataset
    \/ ProcessRawDataset
    \/ UnzipMember
    \/ RenameTemp
    \/ ReadAnnotations
    \/ ListClips
    \/ CropClip
    \/ SaveFeatures
    \/ SaveLabels
    \/ RestoreCwd
    \/ LoadArrays

\* The dataset pipeline: any sequence of top-level calls, any failures.
InitDataSpec == InitData /\ InitWeb
SpecData == InitDataSpec /\ [][NextData]_vars

Handler(r, inputs) ==
    \/ Receive(r, inputs)
    \/ LoadVideo(r)
    \/ SaveChunk(r)
    \/ SaveDone(r)
    \/ Predict(r)
    \/ Respond(r)

\* One POST /predict, with any request over the bounded filenames.
WebInputs == {NoFileRequest} \cup FileRequests(Filenames)
InitWebSpec == DataAtRest /\ InitWeb
NextWeb == Handler("r1", WebInputs)
SpecWeb == InitWebSpec /\ [][NextWeb]_vars

\* Two POST /predict requests served concurrently: two names that sanitize
\* to the same stored name, and one that does not.
RaceNames == { <<"m", ".", "m", "p", "4">>,
               <<"m", ".", "m", "p", "4", ".">>,
               <<"p", ".", "m", "p", "4">> }
InitRace == DataAtRest /\ InitWeb
NextRace == \E r \in Requests : Handler(r, FileRequests(RaceNames))
SpecRace == InitRace /\ [][NextRace]_vars

(***************************************************************************)
(* The properties.                                                         *)
(***************************************************************************)
PipelineSteps ==
    {"begin", "download", "process", "unzip", "csv", "list", "crop", "save_y", "restore"}

\* C1: materialization is idempotent: once one run of the pipeline has
\* succeeded, every later top-level call finds the feature tensor at its
\* canonical path and does no download, extraction or face-extraction work:
\* no call is inside the pipeline again.
C1_MaterializedOnce ==
    materialized => pc \notin PipelineSteps

\* C2: after a successful materialization run the feature tensor and the
\* label vector are at PROCESSED_DATA_FILENAME and PROCESSED_LABELS_FILENAME,
\* so the np.load calls that follow find them.
C2_SavedAtProcessedPaths ==
    materialized =>
        /\ Loadable(PROCESSED_DATA_FILENAME)
        /\ Loadable(PROCESSED_LABELS_FILENAME)
        /\ ~(pc = "idle" /\ result = "raised" /\ raisedAt = "npload")

\* The clip names the archive holds in a folder.
ClipsIn(folder) ==
    {m[4] : m \in {a \in Range(archive) : /\ Len(a) = 4
                                         /\ a[1] = ARCHIVE_ROOT /\ a[2] = "Clips"
                                         /\ a[3] = folder /\ a[4] # ""}}

\* C3: a successful materialization of d deceptive and t truthful clips
\* saves a feature tensor and a label vector of length d + t; the labels
\* are d ones then t zeros; entry i of the tensor is the face-extraction
\* result of the i-th clip, the Deceptive clips first, each once, then the
\* Truthful ones; label i is 1 exactly when clip i is from Deceptive.
C3_LabelsAligned ==
    pc = "restore" =>
        LET d == Cardinality(ClipsIn("Deceptive"))
            t == Cardinality(ClipsIn("Truthful"))
            Xf == files[Join(RAW_DATA_DIRNAME, "X_faces.npy")]
            yf == files[Join(RAW_DATA_DIRNAME, "y.npy")]
        IN  /\ Xf.complete /\ yf.complete
            /\ Len(Xf.arr) = d + t
            /\ yf.arr = [i \in 1..(d + t) |-> IF i <= d THEN 1 ELSE 0]
            /\ Len(X_fnames) = d + t
            /\ {X_fnames[i] : i \in 1..d}
                   = {<<RAW_DATA_DIRNAME, "TrialData", "Clips", "Deceptive", f>> :
                          f \in ClipsIn("Deceptive")}
            /\ {X_fnames[i] : i \in (d + 1)..(d + t)}
                   = {<<RAW_DATA_DIRNAME, "TrialData", "Clips", "Truthful", f>> :
                          f \in ClipsIn("Truthful")}
            /\ \A i \in 1..(d + t) :
                   /\ Xf.arr[i] = Crop(X_fnames[i])
                   /\ (yf.arr[i] = 1) <=> (X_fnames[i][4] = "Deceptive")

\* A materialization of two deceptive and two truthful clips has saved both
\* arrays, the first folder listed in descending order.
C3_Witness ==
    /\ pc = "restore"
    /\ Cardinality(ClipsIn("Deceptive")) = 2
    /\ Cardinality(ClipsIn("Truthful")) = 2
    /\ X_fnames[1][5] = "2"
    /\ files[Join(RAW_DATA_DIRNAME, "y.npy")].arr = <<1, 1, 0, 0>>

\* The extension of a filename: what follows its last dot.
Extension(fname) == Split(fname, ".")[Len(Split(fname, "."))]
HasMp4Extension(fname) ==
    /\ fname # <<>>
    /\ "." \in Range(fname)
    /\ Lower(Extension(fname)) = <<"m", "p", "4">>

\* C4: an uploaded file is accepted and stored exactly when its filename
\* is non-empty, has an extension, and that extension (what follows the
\* last dot, case ignored) is mp4.
C4_AcceptsIffMp4 ==
    (rpc["r1"] \in {"save", "predict", "respond", "done"} /\ req["r1"].hasFile) =>
        ((fpath["r1"] # None) <=> HasMp4Extension(req["r1"].filename))

\* C5: a request whose upload is rejected stores no file, does not call
\* the predictor, and its response carries no score; the predictor is
\* called only for an accepted upload, with the stored file's path.
C5_RejectedNotScored ==
    rpc["r1"] = "done" =>
        IF vpath["r1"] = None
        THEN /\ upload = <<>>
             /\ predictCalls["r1"] = <<>>
             /\ \A kv \in response["r1"].json : kv[1] # "percent"
        ELSE predictCalls["r1"] = <<vpath["r1"]>>

\* C6: for an accepted upload the handler stores the uploaded bytes at
\* UPLOAD_FOLDER/<sanitized filename>, calls the predictor once, with that
\* path, and answers {"percent": s} with the s that call returned.
C6_AcceptedScored ==
    (rpc["r1"] = "done" /\ fpath["r1"] # None) =>
        LET stored == Join(UPLOAD_FOLDER, secure_filename(req["r1"].filename))
        IN  /\ stored \in DOMAIN upload
            /\ upload[stored] = req["r1"].payload
            /\ predictCalls["r1"] = <<stored>>
            /\ scored["r1"] = req["r1"].payload
            /\ ~percent["r1"].raised =>
                   response["r1"] = [status |-> 200,
                                     json |-> {<<"percent", percent["r1"].value>>}]

\* An upload named ".mp4." was stored as /tmp/mp4 and answered with 73.
C6_Witness ==
    /\ rpc["r1"] = "done"
    /\ req["r1"].filename = <<".", "m", "p", "4", ".">>
    /\ predictCalls["r1"] = << <<UPLOAD_FOLDER, <<"m", "p", "4">> >> >>
    /\ response["r1"] = [status |-> 200, json |-> {<<"percent", 73>>}]

\* C7: whichever way a top-level call ends, by returning or by a failure
\* that propagates, the working directory is the one it was called in.
C7_CwdRestored ==
    (pc = "idle" /\ result \in {"returned", "raised"}) => cwd = cwdBefore

BeforeSave == {"begin", "download", "unzip", "rename", "rmdir", "csv", "list", "crop"}

\* C8: the array files are written only by the two saves, which run only
\* once every enumerated clip has its face-extraction result; up to then,
\* and after a failure of download, extraction or face extraction has
\* propagated, the array files are what they were when the call was made.
C8_NoPartialDataset ==
    /\ [](pc \in (PipelineSteps \ {"save_y", "restore"}) => files = filesBefore)
    /\ []((pc = "idle" /\ result = "raised" /\ raisedAt \in BeforeSave)
              => files = filesBefore)
    /\ [][files' # files =>
              /\ pc \in {"crop", "save_y"}
              /\ Len(X) = Len(X_fnames)
              /\ \A i \in 1..Len(X_fnames) : X[i] = Crop(X_fnames[i])]_vars

\* A call failed in face extraction, in an archive of at least two clips,
\* after an earlier call had saved both arrays.
C8_Witness ==
    /\ pc = "idle" /\ result = "raised" /\ raisedAt = "crop"
    /\ Cardinality(ClipsIn("Deceptive")) + Cardinality(ClipsIn("Truthful")) >= 2
    /\ materialized

\* The archive members under the dataset root.
RootMembers == {m \in Range(archive) : Len(m) >= 2 /\ m[1] = ARCHIVE_ROOT}

\* C9: TrialData exists only with every member under the archive root
\* extracted whole; members outside the root are never extracted; the
\* unzip loop runs only while TrialData is absent; and what a failed
\* extraction left under temp/ never makes the rename or the rmdir of a
\* later run fail: at the end of the loop temp/ holds exactly the root's
\* members, whole.
C9_ExtractionAllOrNothing ==
    /\ trialDir.exists =>
           trialDir.entries = {[name |-> Tail(m), whole |-> TRUE] : m \in RootMembers}
    /\ \A e \in tempDir.entries : e.name \in RootMembers
    /\ pc = "unzip" => ~trialDir.exists
    /\ (pc = "unzip" /\ zi > Len(archive)) =>
           tempDir.entries = {[name |-> m, whole |-> TRUE] : m \in RootMembers}
    /\ raisedAt \notin {"rename", "rmdir"}

\* A call found the leftovers of a failed extraction, and TrialData is there.
C9_Witness ==
    /\ sawLeftover
    /\ trialDir.exists
    /\ ~tempDir.exists

SavedBy(r) == fpath[r] # None /\ rpc[r] \in {"predict", "respond", "done"}
Opened(r) == fpath[r] # None

\* Two requests store under one path exactly when their names sanitize alike.
SamePathIffSameName ==
    \A r, q \in Requests :
        (Opened(r) /\ Opened(q)) =>
            ((fpath[r] = fpath[q])
                <=> (secure_filename(req[r].filename) = secure_filename(req[q].filename)))

\* A request none of whose peers has a name that sanitizes like its own
\* finds its own bytes in its file, and has them scored.
Isolated ==
    \A r \in Requests :
        (SavedBy(r) /\ \A q \in Requests \ {r} :
                           \/ rpc[q] = "idle"
                           \/ secure_filename(req[q].filename)
                                  # secure_filename(req[r].filename)) =>
            /\ upload[fpath[r]] = req[r].payload
            /\ rpc[r] \in {"respond", "done"} => scored[r] = req[r].payload

\* C10 as stated: requests whose names sanitize alike write one path and
\* the last writer wins, the file holding the upload of one of them once
\* their saves are done; requests whose names sanitize differently never
\* touch each other's file.
C10_LastWriterWins ==
    /\ SamePathIffSameName
    /\ Isolated
    /\ \A p \in DOMAIN upload :
           (\A w \in Requests : fpath[w] = p => SavedBy(w)) =>
               \E w \in Requests : fpath[w] = p /\ upload[p] = req[w].payload

\* C10 amended: the last writer wins chunk by chunk only.  Every chunk of a
\* stored file is the chunk some request with that path wrote at that
\* offset, or a gap, so after overlapping saves the file may mix the two
\* uploads; the rest as stated.
C10_LastWriteWinsPerChunk ==
    /\ SamePathIffSameName
    /\ Isolated
    /\ \A p \in DOMAIN upload : \A i \in 1..Len(upload[p]) :
           \/ upload[p][i] = Hole
           \/ \E w \in Requests : /\ fpath[w] = p
                                  /\ woff[w] >= i
                                  /\ upload[p][i] = req[w].payload[i]

\* The predictor call of one request has read the bytes another request
\* uploaded under a different filename.
C10_Witness ==
    \E r, q \in Requests :
        /\ r # q
        /\ rpc[r] \in {"respond", "done"}
        /\ req[r].filename # req[q].filename
        /\ req[r].payload # req[q].payload
        /\ scored[r] = req[q].payload

====
